---------------------------- MODULE Spec2Model ----------------------------
(***************************************************************************)
(* A model of reflexible/data_structures.py: the Header facade over a      *)
(* FLEXPART netCDF4 dataset, the FD and C grid accessors, get_slabs and    *)
(* the FDC result container.                                               *)
(*                                                                         *)
(* Conventions.                                                            *)
(*  - A numpy array is a record [shape, data]: shape is the tuple of axis  *)
(*    lengths and data maps every 0-based index tuple to its value.        *)
(*  - A Python list is a sequence; PyAt reads it with Python's indexing    *)
(*    (0-based, negative indices count from the end).                      *)
(*  - A datetime is a number of seconds; a "%Y%m%d%H%M%S" string is the    *)
(*    tuple <<day, hour, minute, second>> (the calendar date is kept as a  *)
(*    day number).  Strftime and Strptime convert between the two.         *)
(*  - Grid values are integers; a quotient is an exact reduced fraction    *)
(*    <<num, den>>, den = 0 standing for numpy's inf / -inf / nan.         *)
(***************************************************************************)
EXTENDS Integers, Sequences, FiniteSets, TLC

\* ------------------------------------------------------------------ bounds
MaxCells  == 4   \* a grid has at most MaxCells cells: nx * ny * nz <= MaxCells
MaxAxis   == 2   \* nageclass, pointspec and time are each 1..MaxAxis in Spec
MaxSpec   == 2   \* numspec is 1..MaxSpec
MaxDates  == 5   \* the time dimension is 0..MaxDates in SpecDates
MaxMult   == 3   \* |loutstep| is 1..MaxMult half hours in SpecDates

StepUnit == 30 * 60

\* datetimes and timedeltas are counted in half seconds, so that the halving
\* of a whole number of seconds in releasetimes is exact
Sec(t) == 2 * t
Day    == Sec(24 * 3600)

None == "None"

\* ------------------------------------------------------- Python sequences
Rev(s) == [i \in 1..Len(s) |-> s[Len(s) + 1 - i]]

InsertAt(s, p, v) == SubSeq(s, 1, p - 1) \o <<v>> \o SubSeq(s, p, Len(s))

RemoveAt(s, p) == SubSeq(s, 1, p - 1) \o SubSeq(s, p + 1, Len(s))

\* seq[i] with Python's rules: valid for -len <= i < len
PyValidIndex(s, i) == -Len(s) <= i /\ i < Len(s)

PyAt(s, i) == IF i < 0 THEN s[Len(s) + i + 1] ELSE s[i + 1]

\* list.index(v): position of the first occurrence, -1 standing for ValueError
RECURSIVE ListIndexFrom(_, _, _)
ListIndexFrom(s, v, i) ==
    IF i > Len(s) THEN -1
    ELSE IF s[i] = v THEN i - 1
    ELSE ListIndexFrom(s, v, i + 1)

ListIndex(s, v) == ListIndexFrom(s, v, 1)

\* range(start, stop, step), step # 0, as the list of the values it yields
RECURSIVE PyRange(_, _, _)
PyRange(start, stop, step) ==
    IF (step > 0 /\ start >= stop) \/ (step < 0 /\ start <= stop)
    THEN <<>>
    ELSE <<start>> \o PyRange(start + step, stop, step)

\* ------------------------------------------------------------- datetimes
Strptime(str) == str[1] * Day + Sec(str[2] * 3600 + str[3] * 60 + str[4])

\* the fraction of a second is dropped by "%S"
Strftime(t) ==
    LET s == (t % Day) \div Sec(1)
    IN <<t \div Day, s \div 3600, (s % 3600) \div 60, s % 60>>

\* timedelta(seconds=t)
Timedelta(t) == Sec(t)

\* lexicographic order of two timestamp strings
StrLess(a, b) ==
    \E i \in 1..4 : a[i] < b[i] /\ \A j \in 1..(i - 1) : a[j] = b[j]

\* ---------------------------------------------------------- numpy arrays
RECURSIVE IdxSet(_)
IdxSet(sh) ==
    IF sh = <<>> THEN {<<>>}
    ELSE {<<i>> \o r : i \in 0..(sh[1] - 1), r \in IdxSet(Tail(sh))}

Zeros(sh) == [shape |-> sh, data |-> [ix \in IdxSet(sh) |-> 0]]

\* A.T: the axes reversed
Transpose(A) ==
    [shape |-> Rev(A.shape),
     data  |-> [ix \in IdxSet(Rev(A.shape)) |-> A.data[Rev(ix)]]]

\* an integer index on axis ax (1-based here), every other axis sliced with ":"
Take(A, ax, i) ==
    LET n  == A.shape[ax]
        ii == IF i < 0 THEN i + n ELSE i
        sh == RemoveAt(A.shape, ax)
    IN [shape |-> sh,
        data  |-> [ix \in IdxSet(sh) |-> A.data[InsertAt(ix, ax, ii)]]]

RECURSIVE SumCells(_, _, _, _)
SumCells(A, ax, ix, n) ==
    IF n = 0 THEN 0
    ELSE SumCells(A, ax, ix, n - 1) + A.data[InsertAt(ix, ax, n - 1)]

\* A.sum(axis): axis ax (1-based here) summed away
SumAxis(A, ax) ==
    LET sh == RemoveAt(A.shape, ax)
    IN [shape |-> sh,
        data  |-> [ix \in IdxSet(sh) |-> SumCells(A, ax, ix, A.shape[ax])]]

\* numpy broadcasting: shapes aligned at their last axis, a length 1 stretches
PadShape(sh, r) == [i \in 1..r |->
                      IF i <= r - Len(sh) THEN 1 ELSE sh[i - (r - Len(sh))]]

MaxOf(a, b) == IF a >= b THEN a ELSE b

Broadcastable(s1, s2) ==
    LET r  == MaxOf(Len(s1), Len(s2))
        p1 == PadShape(s1, r)
        p2 == PadShape(s2, r)
    IN \A i \in 1..r : p1[i] = p2[i] \/ p1[i] = 1 \/ p2[i] = 1

BroadcastShape(s1, s2) ==
    LET r  == MaxOf(Len(s1), Len(s2))
        p1 == PadShape(s1, r)
        p2 == PadShape(s2, r)
    IN [i \in 1..r |-> IF p1[i] = 1 THEN p2[i] ELSE p1[i]]

\* the cell of an array of shape sh that output index ix reads
BroadcastIndex(ix, sh) ==
    LET off == Len(ix) - Len(sh)
    IN [i \in 1..Len(sh) |-> IF sh[i] = 1 THEN 0 ELSE ix[i + off]]

\* A + B, elementwise over the broadcast shape
ArrAdd(A, B) ==
    LET sh == BroadcastShape(A.shape, B.shape)
    IN [shape |-> sh,
        data  |-> [ix \in IdxSet(sh) |->
                     A.data[BroadcastIndex(ix, A.shape)]
                       + B.data[BroadcastIndex(ix, B.shape)]]]

Abs(n) == IF n < 0 THEN -n ELSE n

RECURSIVE Gcd(_, _)
Gcd(a, b) == IF b = 0 THEN a ELSE Gcd(b, a % b)

\* true division g / h of two numbers; h = 0 gives inf, -inf or nan
Quot(g, h) ==
    IF h = 0 THEN <<IF g > 0 THEN 1 ELSE IF g < 0 THEN -1 ELSE 0, 0>>
    ELSE LET d == Gcd(Abs(g), Abs(h))
             s == IF h < 0 THEN -1 ELSE 1
         IN <<s * (g \div d), s * (h \div d)>>

\* A / B, elementwise over the broadcast shape
ArrDiv(A, B) ==
    LET sh == BroadcastShape(A.shape, B.shape)
    IN [shape |-> sh,
        data  |-> [ix \in IdxSet(sh) |->
                     Quot(A.data[BroadcastIndex(ix, A.shape)],
                          B.data[BroadcastIndex(ix, B.shape)])]]

\* row-major (C order) position of index ix in an array of shape sh
RECURSIVE FlatIndex(_, _)
FlatIndex(ix, sh) ==
    IF ix = <<>> THEN 0
    ELSE FlatIndex(SubSeq(ix, 1, Len(ix) - 1), SubSeq(sh, 1, Len(sh) - 1))
           * sh[Len(sh)] + ix[Len(ix)]

RECURSIVE Unflat(_, _)
Unflat(n, sh) ==
    IF sh = <<>> THEN <<>>
    ELSE Unflat(n \div sh[Len(sh)], SubSeq(sh, 1, Len(sh) - 1))
           \o <<n % sh[Len(sh)]>>

\* A.reshape(sh): same cells in the same row-major order
Reshape(A, sh) ==
    [shape |-> sh,
     data  |-> [ix \in IdxSet(sh) |-> A.data[Unflat(FlatIndex(ix, sh), A.shape)]]]

Values(A) == {A.data[ix] : ix \in DOMAIN A.data}

ArrMax(A) == CHOOSE v \in Values(A) : \A w \in Values(A) : w <= v

ArrMin(A) == CHOOSE v \in Values(A) : \A w \in Values(A) : v <= w

\* ------------------------------------------------------------ the dataset
\* What nc.Dataset(path, 'r') hands to Header.__init__.  A dataset is built
\* from a parameter record p:
\*   ldirect, loutstep, iout   global attributes
\*   nsteps, numspec, pointspec, nx, ny, nz, nage   dimension sizes
\*   oro       whether the file holds the ORO variable
\*   seed      which of the value patterns fills the species variables
\* The species variables are laid out (nageclass, pointspec, time, height,
\* latitude, longitude), ORO is (latitude, longitude).

\* the start of the run: day 10, 23:00:00, so that the output steps cross midnight
StartStamp == <<10, 23, 0, 0>>

RawShape(p) == <<p.nage, p.pointspec, p.nsteps, p.nz, p.ny, p.nx>>

DataValue(seed, s, f) ==
    IF seed = 0 THEN f + 10 * s + 1 ELSE ((2 * seed + 1) * f + s) % 5

SpecVar(p, s) ==
    [shape |-> RawShape(p),
     data  |-> [ix \in IdxSet(RawShape(p)) |->
                  DataValue(p.seed, s, FlatIndex(ix, RawShape(p)))]]

\* the run lasts nsteps output steps
RunSeconds(p) == p.nsteps * Abs(p.loutstep)

\* release k lasts 10 + k minutes; offsets count from the start of a forward
\* run and back from the end of a backward run
RelStartOf(p, k) == IF p.ldirect < 0 THEN -(k * StepUnit) - (10 + k) * 60
                                      ELSE k * StepUnit

RelEndOf(p, k)   == IF p.ldirect < 0 THEN -(k * StepUnit)
                                      ELSE k * StepUnit + (10 + k) * 60

MkDataset(p) ==
    [ldirect  |-> p.ldirect,
     loutstep |-> p.loutstep,
     iout     |-> p.iout,
     ibdate   |-> SubSeq(StartStamp, 1, 1),
     ibtime   |-> SubSeq(StartStamp, 2, 4),
     iedate   |-> SubSeq(Strftime(Strptime(StartStamp)
                                  + Timedelta(RunSeconds(p))), 1, 1),
     ietime   |-> SubSeq(Strftime(Strptime(StartStamp)
                                  + Timedelta(RunSeconds(p))), 2, 4),
     dimensions |-> [numspec   |-> p.numspec,
                     numpoint  |-> p.pointspec,
                     pointspec |-> p.pointspec,
                     nageclass |-> p.nage,
                     longitude |-> p.nx,
                     latitude  |-> p.ny,
                     height    |-> p.nz,
                     time      |-> p.nsteps],
     suffix   |-> IF p.iout = 2 THEN "pptv" ELSE "mr",
     spec     |-> [n \in 1..p.numspec |-> SpecVar(p, n - 1)],
     RELSTART |-> [k \in 1..p.pointspec |-> RelStartOf(p, k - 1)],
     RELEND   |-> [k \in 1..p.pointspec |-> RelEndOf(p, k - 1)],
     height   |-> [shape |-> <<p.nz>>,
                   data  |-> [ix \in IdxSet(<<p.nz>>) |-> 50 * ix[1] + p.seed]],
     hasORO   |-> p.oro,
     ORO      |-> [shape |-> <<p.ny, p.nx>>,
                   data  |-> [ix \in IdxSet(<<p.ny, p.nx>>) |->
                                1 + ix[1] + 3 * ix[2]]],
     time     |-> [d \in 1..p.nsteps |-> d * p.loutstep]]

\* ------------------------------------------------------------------ Header
direction(nc) == IF nc.ldirect < 0 THEN "backward" ELSE "forward"

nspec(nc) == nc.dimensions.numspec

\* "spec%03d_mr" % (i + 1) or "spec%03d_pptv" % (i + 1), by iout; for any
\* other iout the name is never bound
VarName(iout, i) ==
    IF iout = 2 THEN <<"pptv", i + 1>>
    ELSE IF iout \in {1, 3, 5} THEN <<"mr", i + 1>>
    ELSE <<>>

HasVar(nc, name) == name[1] = nc.suffix /\ name[2] \in DOMAIN nc.spec

\* the long_name of each species variable
species(nc) == [i \in 1..nspec(nc) |-> <<"long_name", VarName(nc.iout, i - 1)>>]

RangeStamps(d, r) == [i \in 1..Len(r) |-> Strftime(d + Timedelta(r[i]))]

\* the backward range stopped at 0: its last step is lost
available_dates_stop_at_zero(nc) ==
    LET loutstep == nc.loutstep
        nsteps   == nc.dimensions.time
    IN IF nc.ldirect < 0
       THEN RangeStamps(Strptime(nc.iedate \o nc.ietime),
                        PyRange(loutstep * (nsteps - 1), 0, -loutstep))
       ELSE RangeStamps(Strptime(nc.ibdate \o nc.ibtime),
                        PyRange(0, loutstep * nsteps, loutstep))

\* the backward list counted from the start date
available_dates_from_start(nc) ==
    LET loutstep == nc.loutstep
        nsteps   == nc.dimensions.time
    IN RangeStamps(Strptime(nc.ibdate \o nc.ibtime),
                   IF nc.ldirect < 0
                   THEN PyRange(loutstep * (nsteps - 1), -loutstep, -loutstep)
                   ELSE PyRange(0, loutstep * nsteps, loutstep))

available_dates(nc) ==
    LET loutstep == nc.loutstep
        nsteps   == nc.dimensions.time
    IN IF nc.ldirect < 0
       THEN RangeStamps(Strptime(nc.iedate \o nc.ietime),
                        PyRange(loutstep * (nsteps - 1), -loutstep, -loutstep))
       ELSE RangeStamps(Strptime(nc.ibdate \o nc.ibtime),
                        PyRange(0, loutstep * nsteps, loutstep))

ireleasestart(nc) == nc.RELSTART

ireleaseend(nc) == nc.RELEND

releasestart(nc) ==
    IF nc.ldirect < 0
    THEN LET rel_start == Rev(ireleasestart(nc))
             d == Strptime(nc.iedate \o nc.ietime)
         IN [i \in 1..Len(rel_start) |-> d + Timedelta(rel_start[i])]
    ELSE LET rel_start == ireleasestart(nc)
             d == Strptime(nc.ibdate \o nc.ibtime)
         IN [i \in 1..Len(rel_start) |-> d + Timedelta(rel_start[i])]

releaseend(nc) ==
    IF nc.ldirect < 0
    THEN LET rel_end == Rev(ireleaseend(nc))
             d == Strptime(nc.iedate \o nc.ietime)
         IN [i \in 1..Len(rel_end) |-> d + Timedelta(rel_end[i])]
    ELSE LET rel_end == ireleaseend(nc)
             d == Strptime(nc.ibdate \o nc.ibtime)
         IN [i \in 1..Len(rel_end) |-> d + Timedelta(rel_end[i])]

MinOf(a, b) == IF a <= b THEN a ELSE b

\* b - ((b - a) / 2) over zip(releasestart, releaseend)
releasetimes(nc) ==
    LET a == releasestart(nc)
        b == releaseend(nc)
    \* every timedelta here is a whole number of seconds, an even count of
    \* half seconds: its half is exact
    IN [i \in 1..MinOf(Len(a), Len(b)) |-> b[i] - ((b[i] - a[i]) \div 2)]

ORO(nc) == IF nc.hasORO THEN Transpose(nc.ORO) ELSE None

outheight(nc) == Transpose(nc.height)

Heightnn(nc) ==
    LET nx == nc.dimensions.longitude
        ny == nc.dimensions.latitude
        nz == nc.dimensions.height
    IN IF nc.hasORO
       THEN ArrAdd(outheight(nc), Reshape(ORO(nc), <<nx, ny, 1>>))
       ELSE Reshape(outheight(nc), <<1, 1, nz>>)

\* --------------------------------------------------------------------- FDC
\* FDC(): every slot None
FDC_init ==
    [grid |-> None, gridfile |-> None, itime |-> None, timestamp |-> None,
     species |-> None, rel_i |-> None, spec_i |-> None, dry |-> None,
     wet |-> None, slabs |-> None, shape |-> None, max |-> None, min |-> None]

\* the grid setter: the one slot that also derives shape, max and min
grid_setter(c, value) ==
    [c EXCEPT !.grid = value, !.shape = value.shape,
              !.max = ArrMax(value), !.min = ArrMin(value)]

\* a call's outcome: the value returned or the exception raised, and the
\* names looked up in nc.variables on the way
Return(v, rd) == [err |-> None, val |-> v, reads |-> rd]

Raise(e, rd) == [err |-> e, val |-> None, reads |-> rd]

\* --------------------------------------------------------------- get_slabs
normAreaHeight == TRUE

\* get_slabs with the levels stored as they are sliced, not transposed
get_slabs_flag_untransposed(flag, H, grid) ==
    LET Z == grid.shape[3]
        level(i) == IF flag THEN ArrDiv(Take(grid, 3, i), Take(H, 3, i))
                            ELSE Take(grid, 3, i)
    IN Return([k \in 0..Z |-> IF k = 0 THEN Transpose(SumAxis(grid, 3))
                                        ELSE level(k - 1)], {})

\* the body of get_slabs for either value of its local flag
get_slabs_flag(flag, H, grid) ==
    LET Z == grid.shape[3]
        levelOK(i) == ~flag \/ Broadcastable(Take(grid, 3, i).shape,
                                             Take(H, 3, i).shape)
        level(i) == IF flag THEN ArrDiv(Take(grid, 3, i), Take(H, 3, i))
                            ELSE Take(grid, 3, i)
    IN IF \E i \in 0..(Z - 1) : ~levelOK(i)
       THEN Raise("ValueError", {})
       ELSE Return([k \in 0..Z |-> IF k = 0 THEN Transpose(SumAxis(grid, 3))
                                            ELSE Transpose(level(k - 1))], {})

get_slabs(H, grid) == get_slabs_flag(normAreaHeight, H, grid)

\* ------------------------------------------------------------------------ FD
FD_grid_dates(nc) == available_dates(nc)

FD_getitem(nc, item) ==
    LET n     == item[1]
        date  == item[2]
        dates == available_dates(nc)
        idate == ListIndex(dates, date)
        varname == VarName(nc.iout, n)
        fdc == [grid_setter(FDC_init,
                            Transpose(Take(nc.spec[varname[2]], 3, idate)))
                  EXCEPT !.itime = nc.time[idate + 1],
                         !.timestamp = Strptime(dates[idate + 1]),
                         !.spec_i = n,
                         !.rel_i = IF direction(nc) = "forward" THEN 0 ELSE "k",
                         !.species = species(nc)]
    IN IF idate < 0 THEN Raise("ValueError", {})
       ELSE IF varname = <<>> THEN Raise("UnboundLocalError", {})
       ELSE IF ~HasVar(nc, varname) THEN Raise("KeyError", {"spec"})
       ELSE Return(fdc, {"spec", "time"})

\* ------------------------------------------------------------------------- C
\* A Python value given as a key is a record: t its type; v the number of an
\* int, bool or float (or the code of a str); items the elements of a tuple
\* or list.
PyInt(n) == [t |-> "int", v |-> n]

PyTuple(xs) == [t |-> "tuple", items |-> xs]

IntKey(s, k) == PyTuple(<<PyInt(s), PyInt(k)>>)

\* C._keys: itertools.product(range(nspec), range(pointspec))
C_keys_list(nc) ==
    LET ns == nc.dimensions.numspec
        np == nc.dimensions.pointspec
    IN [i \in 1..(ns * np) |-> <<(i - 1) \div np, (i - 1) % np>>]

\* the keys property: return self._keys(), a call of the list
C_keys(nc) == Raise("TypeError", {})

\* __iter__: iter(self._keys)
C_iter(nc) == Return(C_keys_list(nc), {})

\* the checks written with isinstance: a bool is an instance of int
KeyAsserts_isinstance(item) ==
    /\ item.t = "tuple" /\ Len(item.items) = 2
    /\ item.items[1].t \in {"int", "bool"} /\ item.items[2].t \in {"int", "bool"}

\* the two assert statements on the key
KeyAsserts(item) ==
    /\ item.t = "tuple" /\ Len(item.items) = 2
    /\ item.items[1].t = "int" /\ item.items[2].t = "int"

\* c.grid += x done on the array in place, the setter never called again
grid_iadd_in_place(c, x) == [c EXCEPT !.grid = ArrAdd(c.grid, x)]

\* c.grid += x: the getter, the addition, then the setter
grid_iadd(c, x) == grid_setter(c, ArrAdd(c.grid, x))

\* the loop with "=" for "+=": each date overwrites the grid
RECURSIVE C_accumulate_overwrite(_, _, _, _, _)
C_accumulate_overwrite(c, specvar, dates, rest, pointspec) ==
    IF rest = <<>> THEN c
    ELSE LET idate == ListIndex(dates, Head(rest))
         IN C_accumulate_overwrite(
                grid_setter(c, SumAxis(Take(Take(specvar, 5, pointspec), 4, idate), 4)),
                specvar, dates, Tail(rest), pointspec)

\* for date in self.available_dates: ... over the dates not yet visited
RECURSIVE C_accumulate(_, _, _, _, _)
C_accumulate(c, specvar, dates, rest, pointspec) ==
    IF rest = <<>> THEN c
    ELSE LET idate == ListIndex(dates, Head(rest))
         IN C_accumulate(
                grid_iadd(c, SumAxis(Take(Take(specvar, 5, pointspec), 4, idate), 4)),
                specvar, dates, Tail(rest), pointspec)

C_backward(nc, n, pointspec) ==
    LET varname == VarName(nc.iout, n)
        dates   == available_dates(nc)
        c0 == [FDC_init EXCEPT !.timestamp = PyAt(releasetimes(nc), pointspec),
                               !.species = PyAt(species(nc), n),
                               !.gridfile = "multiple",
                               !.rel_i = pointspec,
                               !.spec_i = n]
        specvar == Transpose(nc.spec[varname[2]])
        c1 == grid_setter(c0, Zeros(<<nc.dimensions.longitude,
                                      nc.dimensions.latitude,
                                      nc.dimensions.height>>))
    IN IF ~PyValidIndex(releasetimes(nc), pointspec) THEN Raise("IndexError", {})
       ELSE IF ~PyValidIndex(species(nc), n) THEN Raise("IndexError", {})
       ELSE IF varname = <<>> THEN Raise("UnboundLocalError", {})
       ELSE IF ~HasVar(nc, varname) THEN Raise("KeyError", {"spec"})
       ELSE IF dates # <<>> /\ ~(-specvar.shape[5] <= pointspec
                                 /\ pointspec < specvar.shape[5])
            THEN Raise("IndexError", {"spec"})
       ELSE Return(C_accumulate(c1, specvar, dates, dates, pointspec), {"spec"})

C_forward(nc, n, pointspec) ==
    IF ~PyValidIndex(FD_grid_dates(nc), pointspec) THEN Raise("IndexError", {})
    ELSE FD_getitem(nc, <<n, PyAt(FD_grid_dates(nc), pointspec)>>)

\* C.__getitem__
C_getitem(nc, item) ==
    IF ~KeyAsserts(item) THEN Raise("AssertionError", {})
    ELSE LET n == item.items[1].v
             pointspec == item.items[2].v
             r == IF direction(nc) = "backward"
                  THEN C_backward(nc, n, pointspec)
                  ELSE C_forward(nc, n, pointspec)
             sl == get_slabs(Heightnn(nc), r.val.grid)
         IN IF r.err # None THEN r
            ELSE IF sl.err # None THEN Raise(sl.err, r.reads)
            ELSE Return([r.val EXCEPT !.slabs = sl.val], r.reads)

\* ------------------------------------------------------- the state machine
VARIABLES
    nc,      \* the dataset the Header was constructed on
    op,      \* the call in progress, "idle" between calls
    arg,     \* its argument
    err,     \* the exception it raised, None if it returned
    out,     \* the value it returned
    reads    \* the names it looked up in nc.variables

vars == <<nc, op, arg, err, out, reads>>

\* the datasets of Spec.  A configuration c fixes the direction and, with it,
\* iout, the sign of loutstep (FLEXPART writes it with the sign of ldirect,
\* the odd configurations hold the other sign), whether ORO is present and
\* the value pattern; the dimension sizes are every combination within the
\* bounds.
Iouts == <<1, 2, 3, 5>>

Configs == 0..3

GridShapes ==
    {<<nx, ny, nz>> : nx \in 1..MaxCells, ny \in 1..MaxCells, nz \in 1..MaxCells}

SliceShapes ==
    {<<na, np, nt>> : na \in 1..MaxAxis, np \in 1..MaxAxis, nt \in 1..MaxAxis}

GridParams ==
    {[ldirect |-> IF c < 2 THEN -1 ELSE 1,
      loutstep |-> (IF c \in {0, 3} THEN -1 ELSE 1) * StepUnit,
      iout |-> Iouts[c + 1], nsteps |-> sl[3], numspec |-> ns, pointspec |-> sl[2],
      nx |-> g[1], ny |-> g[2], nz |-> g[3], nage |-> sl[1],
      oro |-> (c % 2 = 1), seed |-> c % 2] :
        c \in Configs, ns \in 1..MaxSpec,
        g \in {h \in GridShapes : h[1] * h[2] * h[3] <= MaxCells},
        sl \in SliceShapes}

\* the datasets of SpecDates: every direction, step and number of steps on a
\* one-cell grid
DateParams ==
    {[ldirect |-> ld, loutstep |-> m * StepUnit, iout |-> 1, nsteps |-> nt,
      numspec |-> 1, pointspec |-> 1, nx |-> 1, ny |-> 1, nz |-> 1, nage |-> 1,
      oro |-> FALSE, seed |-> 0] :
        ld \in {-1, 1}, m \in (-MaxMult..MaxMult) \ {0}, nt \in 0..MaxDates}

Idle ==
    /\ op = "idle" /\ arg = None /\ err = None /\ out = None /\ reads = {}

Init == nc \in {MkDataset(p) : p \in GridParams} /\ Idle

InitDates == nc \in {MkDataset(p) : p \in DateParams} /\ Idle

Call(name, a, r) ==
    /\ op' = name /\ arg' = a
    /\ err' = r.err /\ out' = r.val /\ reads' = r.reads
    /\ UNCHANGED nc

\* keys a caller may hand to C.__getitem__
MalformedKeys ==
    {PyInt(0),
     [t |-> "list", items |-> <<PyInt(0), PyInt(0)>>],
     PyTuple(<<PyInt(0)>>),
     PyTuple(<<PyInt(0), PyInt(0), PyInt(0)>>),
     PyTuple(<<[t |-> "bool", v |-> 0], PyInt(0)>>),
     PyTuple(<<PyInt(0), [t |-> "float", v |-> 0]>>),
     PyTuple(<<PyInt(0), [t |-> "str", v |-> 0]>>)}

\* every species index from -1 to one past the last, every release-point
\* index from -1 to one past the last release point and the last date
CKeyInputs ==
    {IntKey(s, k) : s \in -1..nc.dimensions.numspec,
                    k \in -1..MaxOf(nc.dimensions.pointspec, nc.dimensions.time)}
        \cup MalformedKeys

\* a date no run of the model outputs
MissingDate == <<0, 0, 0, 0>>

FDKeyInputs ==
    {<<s, d>> : s \in -1..nc.dimensions.numspec,
                d \in {available_dates(nc)[i] : i \in DOMAIN available_dates(nc)}
                      \cup {MissingDate}}

\* the (x, y, z) grids of the first species and age class, one per date and
\* release point
SlabGridInputs ==
    {Transpose(Take(Take(Take(nc.spec[1], 1, 0), 1, k), 1, d)) :
        k \in 0..(nc.dimensions.pointspec - 1),
        d \in 0..(nc.dimensions.time - 1)}

\* H.C[item]
CGetItem ==
    /\ op = "idle"
    /\ \E item \in CKeyInputs : Call("C.getitem", item, C_getitem(nc, item))

\* H.FD[item]
FDGetItem ==
    /\ op = "idle"
    /\ \E item \in FDKeyInputs : Call("FD.getitem", item, FD_getitem(nc, item))

\* H.C.keys
CKeys ==
    /\ op = "idle"
    /\ Call("C.keys", None, C_keys(nc))

\* list(H.C)
CIter ==
    /\ op = "idle"
    /\ Call("C.iter", None, C_iter(nc))

\* H.available_dates
HeaderAvailableDates ==
    /\ op = "idle"
    /\ Call("available_dates", None, Return(available_dates(nc), {}))

\* get_slabs(H.Heightnn, grid), with its local flag either way
GetSlabs ==
    /\ op = "idle"
    /\ \E flag \in BOOLEAN, grid \in SlabGridInputs :
         Call("get_slabs", [flag |-> flag, grid |-> grid],
              get_slabs_flag(flag, Heightnn(nc), grid))

\* the call is over: its result is dropped
Done ==
    /\ op # "idle"
    /\ op' = "idle" /\ arg' = None /\ err' = None /\ out' = None /\ reads' = {}
    /\ UNCHANGED nc

Next ==
    \/ CGetItem
    \/ FDGetItem
    \/ CKeys
    \/ CIter
    \/ HeaderAvailableDates
    \/ GetSlabs
    \/ Done

Spec == Init /\ [][Next]_vars

NextDates == HeaderAvailableDates \/ Done

SpecDates == InitDates /\ [][NextDates]_vars

\* ------------------------------------------------------------- properties
\* the sum of a function's values over its (finite) domain
RECURSIVE SumFn(_)
SumFn(f) ==
    IF DOMAIN f = {} THEN 0
    ELSE LET e == CHOOSE e \in DOMAIN f : TRUE
         IN f[e] + SumFn([x \in DOMAIN f \ {e} |-> f[x]])

NX == nc.dimensions.longitude
NY == nc.dimensions.latitude
NZ == nc.dimensions.height

\* the key of the C lookup in progress is a pair of plain integers
PlainIntPair ==
    /\ arg.t = "tuple" /\ Len(arg.items) = 2
    /\ \A i \in 1..2 : arg.items[i].t = "int"

KeyS == arg.items[1].v
KeyK == arg.items[2].v

CReturned == op = "C.getitem" /\ err = None

\* the raw species-s variable at (x, y, z, d, k, a), in the file's axis order
RawAt(s, x, y, z, d, k, a) == nc.spec[s + 1].data[<<a, k, d, z, y, x>>]

\* C1: a backward C lookup of a key (s, k), 0 <= s < numspec and
\* 0 <= k < pointspec, returns a grid of shape (numxgrid, numygrid, numzgrid)
\* whose cell (x, y, z) is the sum over every date index d and every age
\* class a of the raw species-s variable at (x, y, z, d, k, a).
C1_BackwardGridIsSum ==
    (/\ op = "C.getitem" /\ direction(nc) = "backward" /\ PlainIntPair
     /\ KeyS \in 0..(nc.dimensions.numspec - 1)
     /\ KeyK \in 0..(nc.dimensions.pointspec - 1))
    => /\ err = None
       /\ out.grid.shape = <<NX, NY, NZ>>
       /\ DOMAIN out.grid.data = IdxSet(<<NX, NY, NZ>>)
       /\ \A x \in 0..(NX - 1), y \in 0..(NY - 1), z \in 0..(NZ - 1) :
            out.grid.data[<<x, y, z>>] =
              SumFn([da \in (0..(nc.dimensions.time - 1))
                             \X (0..(nc.dimensions.nageclass - 1)) |->
                       RawAt(KeyS, x, y, z, da[1], KeyK, da[2])])

\* C1's case: a returned backward lookup that summed several dates and
\* several age classes at a release point other than the first
C1_Witness ==
    /\ CReturned /\ direction(nc) = "backward"
    /\ nc.dimensions.time >= 2 /\ nc.dimensions.nageclass >= 2
    /\ nc.dimensions.pointspec >= 2
    /\ KeyK = 1 /\ out.max > 0

\* C7: every FDC an FD or C lookup returns has shape, min and max equal to
\* the shape, the least and the greatest value of the grid it holds.
C7_DerivedSlotsMatchGrid ==
    (op \in {"C.getitem", "FD.getitem"} /\ err = None)
    => /\ out.shape = out.grid.shape
       /\ \E ix \in DOMAIN out.grid.data : out.grid.data[ix] = out.min
       /\ \E ix \in DOMAIN out.grid.data : out.grid.data[ix] = out.max
       /\ \A ix \in DOMAIN out.grid.data :
            out.min <= out.grid.data[ix] /\ out.grid.data[ix] <= out.max

\* C7's case: a backward lookup whose accumulated grid is not the zero grid
C7_Witness ==
    /\ CReturned /\ direction(nc) = "backward"
    /\ nc.dimensions.time >= 2
    /\ out.min > 0

\* C2: a forward C lookup of a key (s, k), k a valid index into grid_dates,
\* returns a grid equal to the grid of FD[(s, grid_dates[k])].
C2_ForwardGridIsFDGrid ==
    (/\ op = "C.getitem" /\ direction(nc) = "forward" /\ PlainIntPair
     /\ KeyS \in 0..(nc.dimensions.numspec - 1)
     /\ PyValidIndex(FD_grid_dates(nc), KeyK))
    => /\ err = None
       /\ out.grid = FD_getitem(nc, <<KeyS, PyAt(FD_grid_dates(nc), KeyK)>>).val.grid

\* the height field at (x, y, z), a (1, 1, nz) field serving every column
HeightAt(x, y, z) ==
    LET H == Heightnn(nc)
    IN H.data[<<IF H.shape[1] = 1 THEN 0 ELSE x,
                IF H.shape[2] = 1 THEN 0 ELSE y, z>>]

\* C3: get_slabs(H, G) of a 3D grid G with Z levels returns a mapping with
\* keys 0..Z; slabs[0] is the transpose of the sum of the raw G over its
\* levels, with the normalization on or off; slabs[i], i in 1..Z, is the
\* transpose of G[:,:,i-1] / H[:,:,i-1] with the normalization on and of
\* G[:,:,i-1] with it off.
C3_SlabsOfGrid ==
    op = "get_slabs"
    => LET G == arg.grid
           X == G.shape[1]
           Y == G.shape[2]
           Z == G.shape[3]
       IN /\ err = None
          /\ DOMAIN out = 0..Z
          /\ \A i \in 0..Z : out[i].shape = <<Y, X>>
          /\ \A x \in 0..(X - 1), y \in 0..(Y - 1) :
               /\ out[0].data[<<y, x>>] =
                    SumFn([z \in 0..(Z - 1) |-> G.data[<<x, y, z>>]])
               /\ \A i \in 1..Z :
                    out[i].data[<<y, x>>] =
                      IF arg.flag
                      THEN Quot(G.data[<<x, y, i - 1>>], HeightAt(x, y, i - 1))
                      ELSE G.data[<<x, y, i - 1>>]

\* C3's case: a normalized reduction of a grid of several levels that is not
\* square, over a height field with orography
C3_Witness ==
    /\ op = "get_slabs" /\ err = None /\ arg.flag
    /\ arg.grid.shape[3] >= 2 /\ arg.grid.shape[1] # arg.grid.shape[2]
    /\ nc.hasORO

\* C4: every result a C lookup returns, backward or forward, holds a slabs
\* mapping with exactly the keys 0..numzgrid whose every value is a 2D array
\* of shape (numygrid, numxgrid).
C4_SlabsAre2D ==
    CReturned
    => /\ DOMAIN out.slabs = 0..NZ
       /\ \A i \in 0..NZ : out.slabs[i].shape = <<NY, NX>>

\* C8 as claimed: a C lookup whose key is not a 2-tuple of plain integers is
\* rejected with a type error, before any variable of the dataset is read
\* and without a result.
C8_MalformedKeyTypeError ==
    (op = "C.getitem" /\ ~PlainIntPair)
    => err = "TypeError" /\ reads = {} /\ out = None

\* C8 as amended: the rejection is the AssertionError of the assert
\* statements that check the key.
C8_MalformedKeyAssertionError ==
    (op = "C.getitem" /\ ~PlainIntPair)
    => err = "AssertionError" /\ reads = {} /\ out = None

\* C8's case: a 2-tuple whose first element is a bool has been refused
C8_Witness ==
    /\ op = "C.getitem" /\ err = "AssertionError"
    /\ arg.t = "tuple" /\ Len(arg.items) = 2 /\ arg.items[1].t = "bool"

\* C9: iterating a C accessor and reading its keys property both give the
\* product range(numspec) x range(pointspec) in order, the species index
\* varying slowest, and the lookup of every key so enumerated returns a
\* result, in both directions.
C9_KeysEnumerateValidKeys ==
    LET ns == nc.dimensions.numspec
        np == nc.dimensions.pointspec
        Product == /\ Len(out) = ns * np
                   /\ \A s \in 0..(ns - 1), k \in 0..(np - 1) :
                        out[s * np + k + 1] = <<s, k>>
    IN /\ op \in {"C.iter", "C.keys"} => (err = None /\ Product)
       /\ (/\ op = "C.getitem" /\ PlainIntPair
           /\ KeyS \in 0..(ns - 1) /\ KeyK \in 0..(np - 1)) => err = None

\* C10: the timestamp of a backward C lookup of (s, k) is the midpoint
\* end - (end - start) / 2 of the release window of release point k, whose
\* start and end are RELSTART[k] and RELEND[k] seconds from iedate + ietime.
C10_TimestampOfSameRelease ==
    (/\ CReturned /\ direction(nc) = "backward"
     /\ KeyK \in 0..(nc.dimensions.pointspec - 1))
    => LET base  == Strptime(nc.iedate \o nc.ietime)
           start == base + Timedelta(nc.RELSTART[KeyK + 1])
           end   == base + Timedelta(nc.RELEND[KeyK + 1])
       IN 2 * out.timestamp = 2 * end - (end - start)

\* ------------------------------------------------- properties of the dates
DatesReturned == op = "available_dates" /\ err = None

Ascending(l) == \A i \in 1..(Len(l) - 1) : StrLess(l[i], l[i + 1])

Descending(l) == \A i \in 1..(Len(l) - 1) : StrLess(l[i + 1], l[i])

EndStamp == nc.iedate \o nc.ietime

\* the stamp t seconds after the end date
EndPlus(t) == Strftime(Strptime(EndStamp) + Timedelta(t))

\* C5: in both directions and for every loutstep other than 0, positive or
\* negative, available_dates has as many entries as the time dimension.
C5_DatesLength ==
    DatesReturned => Len(out) = nc.dimensions.time

\* C5's case: a backward list of several dates for a negative loutstep
C5_Witness ==
    /\ DatesReturned /\ nc.ldirect < 0 /\ nc.loutstep < 0
    /\ nc.dimensions.time = 3 /\ Len(out) = 3

\* C6 as claimed: the backward list is increasing in time; for 5 steps of
\* 3600 s it holds 5 ascending stamps, the last one step before the end
\* date iedate + ietime.
C6_BackwardAscendingEndMinusStep ==
    (DatesReturned /\ nc.ldirect < 0)
    => /\ Ascending(out)
       /\ (nc.dimensions.time = 5 /\ nc.loutstep = 3600)
          => (Len(out) = 5 /\ out[5] = EndPlus(-3600))

\* C6 as amended: the backward list ends at the end date iedate + ietime
\* itself and steps by loutstep towards it: increasing in time for a
\* negative loutstep, decreasing for a positive one; for 5 steps of 3600 s
\* it holds 5 stamps, from 4 hours away from the end date to the end date.
C6_BackwardEndsAtEndDate ==
    (DatesReturned /\ nc.ldirect < 0)
    => /\ nc.loutstep < 0 => Ascending(out)
       /\ nc.loutstep > 0 => Descending(out)
       /\ Len(out) > 0 => out[Len(out)] = EndStamp
       /\ \A i \in 1..Len(out) :
            out[i] = EndPlus((Len(out) - i) * nc.loutstep)
       /\ (nc.dimensions.time = 5 /\ Abs(nc.loutstep) = 3600)
          => /\ Len(out) = 5
             /\ out[1] = EndPlus(4 * nc.loutstep)
             /\ out[5] = EndStamp

\* C6's case: the backward list of 5 steps of 3600 s
C6_Witness ==
    /\ DatesReturned /\ nc.ldirect < 0
    /\ nc.dimensions.time = 5 /\ nc.loutstep = 3600
    /\ Len(out) = 5 /\ Descending(out)

=============================================================================
